---- MODULE Spec2Model ----
(***************************************************************************)
(* Lifecycle of the XRay VPN client (pkg/client/client.go): Connect,       *)
(* Disconnect, the copy goroutine, and the system state they act on (the   *)
(* proxy engine, the TUN interface and the routing table).                 *)
(***************************************************************************)
EXTENDS Integers, Sequences, FiniteSets, TLC

\* Number of Connect calls a behaviour may make.
MaxCalls == 2

\* The same, in the behaviours checked for liveness.
MaxLiveCalls == 1

CallIds == 1..MaxCalls

\* ------------------------------------------------------------------ values

\* The nil error. An error is the sequence of the leaf errors it wraps.
NIL == <<>>

\* errors.Join: drops the nil errors, returns nil when none is left.
RECURSIVE Flatten(_)
Flatten(errs) ==
    IF errs = <<>> THEN <<>> ELSE Head(errs) \o Flatten(Tail(errs))

JoinFirstOnly(errs) ==
    LET nonnil == SelectSeq(errs, LAMBDA e : e # NIL)
    IN  IF nonnil = <<>> THEN NIL ELSE Head(nonnil)

Join(errs) ==
    LET nonnil == SelectSeq(errs, LAMBDA e : e # NIL)
    IN  IF Len(nonnil) = 0 THEN NIL ELSE Flatten(nonnil)

\* errors.Is on a joined error.
Contains(err, leaf) == \E i \in 1..Len(err) : err[i] = leaf

\* Config of NewClient.
GatewayIP == "10.0.0.1"
defaultTUNAddress == "192.18.0.1/32"
DefaultRoutesToTUN == << <<"0.0.0.0", 1>>, <<"128.0.0.0", 1>> >>

defaultInboundProxy == "127.0.0.1:10808"
defaultLogger == "text handler on stdout"

\* A Config: a pointer or slice field the caller leaves out is nil ("" or
\* <<>>); TLSAllowInsecure is a plain bool, left out it is false.
Configs ==
    [GatewayIP : {"", "10.0.0.254"},
     InboundProxy : {"", "127.0.0.1:1080"},
     TUNAddress : {"", "10.9.0.1/32"},
     RoutesToTUN : {<<>>, << <<"10.0.0.0", 8>> >>},
     TLSAllowInsecure : BOOLEAN,
     Logger : {"", "caller's logger"}]

NilConfig ==
    [GatewayIP |-> "", InboundProxy |-> "", TUNAddress |-> "",
     RoutesToTUN |-> <<>>, TLSAllowInsecure |-> FALSE, Logger |-> ""]

\* main: client.Config{TLSAllowInsecure: false, Logger: logger}
MainConfig == [NilConfig EXCEPT !.Logger = "caller's logger"]

\* What a constructor returns: (*Client, error), and whether it called
\* gateway.DiscoverGateway. cfg is the cfg field of the returned Client.
NotConstructed ==
    [called |-> FALSE, ok |-> FALSE, discovered |-> FALSE, cfg |-> NilConfig,
     err |-> NIL]

\* NewClient, on a host where DiscoverGateway succeeds (d = "ok") or fails.
NewClient(d) ==
    IF d # "ok"
    THEN [called |-> TRUE, ok |-> FALSE, discovered |-> TRUE, cfg |-> NilConfig,
          err |-> <<"discover gateway">>]
    ELSE [called |-> TRUE, ok |-> TRUE, discovered |-> TRUE,
          cfg |-> [GatewayIP |-> GatewayIP,
                   InboundProxy |-> defaultInboundProxy,
                   TUNAddress |-> defaultTUNAddress,
                   RoutesToTUN |-> DefaultRoutesToTUN,
                   TLSAllowInsecure |-> FALSE,
                   Logger |-> defaultLogger],
          err |-> NIL]

\* NewClientWithOpts(c): NewClient first, then a switch whose first true case
\* is the only one that runs; no case copies TLSAllowInsecure.
NewClientWithOpts(c, d) ==
    LET made == NewClient(d)
    IN  IF made.err # NIL THEN made
        ELSE [made EXCEPT !.cfg =
                IF c.GatewayIP # "" THEN [@ EXCEPT !.GatewayIP = c.GatewayIP]
                ELSE IF c.InboundProxy # ""
                THEN [@ EXCEPT !.InboundProxy = c.InboundProxy]
                ELSE IF c.TUNAddress # ""
                THEN [@ EXCEPT !.TUNAddress = c.TUNAddress]
                ELSE IF c.RoutesToTUN # <<>>
                THEN [@ EXCEPT !.RoutesToTUN = c.RoutesToTUN]
                ELSE IF c.Logger # "" THEN [@ EXCEPT !.Logger = c.Logger]
                ELSE @]

\* Connection links handed to Connect, and the remote address a link parses
\* to (c.xCfg.Address); a link that does not parse has none.
Links == {"malformed", "vless://remote.example:443"}
Remotes == {"203.0.113.5"}

ParseXrayConfig(link) ==
    IF link = "vless://remote.example:443"
    THEN [ok |-> TRUE, Address |-> "203.0.113.5"]
    ELSE [ok |-> FALSE, Address |-> ""]

\* ---------------------------------------------------------- routing table

\* The host's own default route, present before the client runs.
DefaultRoute == [dst |-> <<"0.0.0.0", 0>>, gw |-> GatewayIP, ifc |-> 0]

\* ifc.Name(): the id-th TUN device is named by its id; 0 is the empty name.
IfName(id) == id

\* route.Opts -> the table entries it names (gateway form or interface form).
OptsEntries(opts) ==
    {[dst |-> opts.Routes[i], gw |-> opts.Gateway, ifc |-> opts.IfName] :
        i \in 1..Len(opts.Routes)}

xrayToGatewayRouteSlashZero(addr) ==
    [Gateway |-> GatewayIP, IfName |-> 0, Routes |-> << <<"0.0.0.0", 0>> >>]

xrayToGatewayRoute(addr) ==
    [Gateway |-> GatewayIP, IfName |-> 0, Routes |-> << <<addr, 32>> >>]

tunRoute(id, routes) ==
    [Gateway |-> "", IfName |-> IfName(id), Routes |-> routes]

\* The entries the routing table of the model can hold: the default route,
\* a host route to each remote via the gateway, the redirects to each TUN.
HostRoute(addr) == [dst |-> <<addr, 32>>, gw |-> GatewayIP, ifc |-> 0]
Redirect(id, i) == [dst |-> DefaultRoutesToTUN[i], gw |-> "", ifc |-> id]

Entries ==
    {DefaultRoute}
    \cup {HostRoute(r) : r \in Remotes}
    \cup {Redirect(id, i) : id \in CallIds, i \in 1..Len(DefaultRoutesToTUN)}

\* route.Add succeeding / route.Delete succeeding on a table (entry -> count).
\* An entry that is already present cannot be added again (EEXIST), one that
\* is absent cannot be deleted (ESRCH).
CanAdd(t, es) == \A e \in es : t[e] = 0
CanDelete(t, es) == \A e \in es : t[e] > 0
RouteAdd(t, es) == [e \in Entries |-> IF e \in es THEN t[e] + 1 ELSE t[e]]
RouteDelete(t, es) == [e \in Entries |-> IF e \in es THEN t[e] - 1 ELSE t[e]]

\* Closing a TUN device removes the routes that point at it.
DropIfRoutes(t, id) ==
    [e \in Entries |-> IF e.ifc = IfName(id) THEN 0 ELSE t[e]]

\* The first k routes of an interface-form Opts.
FirstRoutes(opts, k) == [opts EXCEPT !.Routes = SubSeq(opts.Routes, 1, k)]

\* ------------------------------------------------------- wrapped stream

\* Bound: number of calls made on the stream.
MaxOps == 4

\* What the wrapped stream of the test puts after the data it echoes ("test").
Trailer == <<"t">>

\* The data a caller writes: one byte, or two different ones.
Payloads == {<<"a">>, <<"a", "b">>}

\* The caller reads into a buffer that holds the longest echoed payload.
BufLen == Len(<<"a", "b">> \o Trailer)

Min(a, b) == IF a <= b THEN a ELSE b

Errors == {NIL, <<"io">>}

\* The wrapped io.ReadWriteCloser: an echo. It keeps what it accepted, with
\* its trailer, until it is read; any call can fail, a Write that takes only
\* part of p fails, and a closed stream fails every call.
FreshStream == [pending |-> <<>>, closed |-> FALSE]

UnderWrite(st, p) ==
    IF st.closed
    THEN {[n |-> 0, err |-> <<"closed">>, next |-> st]}
    ELSE {o \in {[n |-> k, err |-> e,
                   next |-> [st EXCEPT
                               !.pending = @ \o SubSeq(p, 1, k) \o Trailer]] :
                      k \in 0..Len(p), e \in Errors} :
              o.n < Len(p) => o.err # NIL}

UnderRead(st, len) ==
    IF st.closed
    THEN {[n |-> 0, err |-> <<"closed">>, data |-> <<>>, next |-> st]}
    ELSE {[n |-> k, err |-> e, data |-> SubSeq(st.pending, 1, k),
           next |-> [st EXCEPT
                       !.pending = SubSeq(@, k + 1, Len(st.pending))]] :
              k \in 0..Min(len, Len(st.pending)), e \in Errors}

UnderClose(st) ==
    IF st.closed
    THEN {[err |-> <<"closed">>, next |-> st]}
    ELSE {[err |-> e, next |-> [st EXCEPT !.closed = TRUE]] : e \in Errors}

\* ------------------------------------------------------------------- state

VARIABLES
    pc,            \* where the caller is: "idle" or a step of Connect/Disconnect
    calls,         \* Connect calls made so far; the id of the current one
    link,          \* argument of the current Connect
    dctx,          \* argument of the current Disconnect
    connected,     \* the caller holds a successful Connect not yet disconnected
    lastResult,    \* the call that returned last, and its error
    xInst,         \* Client.xInst: 0 (nil) or an engine id
    xCfg,          \* Client.xCfg: "" (nil) or the parsed remote address
    tunnel,        \* Client.tunnel: 0 (nil) or an interface id
    stopTunnel,    \* Client.stopTunnel: 0 (nil) or the id of the context it cancels
    wg,            \* the WaitGroup counter of the current Connect
    engine,        \* engine id -> "none" | "created" | "running" | "closed"
    iface,         \* interface id -> [st: "none"|"created"|"up"|"closed", addr]
    routes,        \* routing table: entry -> number of copies
    added,         \* table entries the current Connect call has added
    staleDel,      \* what the discarded route.Delete of the current Connect did
    gpc,           \* copy goroutine id -> position
    gval,          \* copy goroutine id -> value Copy returned, until it is sent
    cancelled,     \* context id -> cancelled
    res,           \* Disconnect: results of the teardown calls made so far
    err,           \* Disconnect: the local err
    attempts,      \* Disconnect: how often each teardown call was made
    wait,          \* Disconnect: how the select ended, and with what
    cfg,           \* the Config handed to NewClientWithOpts
    discover,      \* whether gateway.DiscoverGateway succeeds on this host
    built,         \* what NewClientWithOpts returned
    nRead,         \* readerMetrics.nRead
    nWritten,      \* readerMetrics.nWritten
    inner,         \* the wrapped io.ReadWriteCloser
    ret,           \* the last call on the wrapper: what it was given, what it
                   \* handed on, what the wrapped stream and it returned
    seen,          \* counts the wrapped stream returned with a nil error
    ops            \* calls made on the wrapper

vars == <<pc, calls, link, dctx, connected, lastResult, xInst, xCfg, tunnel,
          stopTunnel, wg, engine, iface, routes, added, staleDel, gpc, gval,
          cancelled, res, err, attempts, wait, cfg, discover, built, nRead,
          nWritten, inner, ret, seen, ops>>

lifecycle == <<pc, calls, link, dctx, connected, lastResult, xInst, xCfg,
               tunnel, stopTunnel, wg, engine, iface, routes, added, staleDel,
               gpc, gval, cancelled, res, err, attempts, wait>>
construction == <<cfg, discover, built>>
metrics == <<nRead, nWritten, inner, ret, seen, ops>>

client == <<xInst, xCfg, tunnel, stopTunnel>>
system == <<engine, iface, routes>>
goroutines == <<gpc, gval, cancelled>>
disconnectLocals == <<res, err, attempts, wait, dctx>>

NoResult == [op |-> "none", err |-> NIL, id |-> 0]
NoAttempts == [xclose |-> 0, tclose |-> 0, rdel |-> 0]
NoWait == [how |-> "none", val |-> NIL, from |-> 0]

\* Stale exceptions a previous, crashed run may have left in the table.
StaleTables ==
    {[e \in Entries |->
        IF e = DefaultRoute THEN 1
        ELSE IF e \in {HostRoute(r) : r \in S} THEN 1
        ELSE 0] : S \in SUBSET Remotes}

NoCall ==
    [op |-> "none", arg |-> <<>>, passed |-> <<>>, n |-> 0, err |-> NIL,
     data |-> <<>>, under |-> [n |-> 0, err |-> NIL, data |-> <<>>]]

\* newReaderMetrics(rw): both counters zero, nothing called yet.
newReaderMetrics ==
    /\ nRead = 0
    /\ nWritten = 0
    /\ inner = FreshStream
    /\ ret = NoCall
    /\ seen = [read |-> 0, written |-> 0]
    /\ ops = 0

\* NewClient: the fields of a fresh Client, on a host with its default route.
ClientFresh ==
    /\ pc = "idle"
    /\ calls = 0
    /\ link = ""
    /\ dctx = "none"
    /\ connected = FALSE
    /\ lastResult = NoResult
    /\ xInst = 0
    /\ xCfg = ""
    /\ tunnel = 0
    /\ stopTunnel = 0
    /\ wg = 0
    /\ engine = [i \in CallIds |-> "none"]
    /\ iface = [i \in CallIds |-> [st |-> "none", addr |-> ""]]
    /\ routes \in StaleTables
    /\ added = {}
    /\ staleDel = "none"
    /\ gpc = [i \in CallIds |-> "none"]
    /\ gval = [i \in CallIds |-> NIL]
    /\ cancelled = [i \in CallIds |-> FALSE]
    /\ res = <<>>
    /\ err = NIL
    /\ attempts = NoAttempts
    /\ wait = NoWait

\* main has built its Client with NewClientWithOpts; no stream is in use.
Init ==
    /\ ClientFresh
    /\ cfg = MainConfig
    /\ discover = "ok"
    /\ built = NewClientWithOpts(cfg, discover)
    /\ newReaderMetrics

\* ------------------------------------------------------------ constructor

\* A caller is about to build a Client from any Config, on any host.
ConfigInit ==
    /\ ClientFresh
    /\ cfg \in Configs
    /\ discover \in {"ok", "fail"}
    /\ built = NotConstructed
    /\ newReaderMetrics

\* client.NewClientWithOpts(cfg)
Construct ==
    /\ ~built.called
    /\ built' = NewClientWithOpts(cfg, discover)
    /\ UNCHANGED <<lifecycle, cfg, discover, metrics>>

ConfigNext == Construct

ConfigSpec == ConfigInit /\ [][ConfigNext]_vars

\* ----------------------------------------------------------------- Connect

\* Connect returns e to the caller.
ConnectReturn(e) ==
    /\ pc' = "idle"
    /\ lastResult' = [op |-> "Connect", err |-> e, id |-> calls]
    /\ connected' = (e = NIL)

\* Connect(l) begins: the method does not look at the state of the client.
ConnectEnter(n) ==
    /\ pc = "idle"
    /\ calls < n
    /\ \E l \in Links : link' = l
    /\ calls' = calls + 1
    /\ pc' = "c_create"
    /\ lastResult' = NoResult
    /\ added' = {}
    /\ staleDel' = "none"
    /\ res' = <<>>
    /\ err' = NIL
    /\ attempts' = NoAttempts
    /\ wait' = NoWait
    /\ dctx' = "none"
    /\ UNCHANGED <<construction, metrics>>
    /\ UNCHANGED <<connected, client, wg, system, goroutines>>

\* The caller calls Connect(l); main calls it on a client that is not connected.
ConnectCallUpTo(n) ==
    /\ ~connected
    /\ ConnectEnter(n)

ConnectCall == ConnectCallUpTo(MaxCalls)

\* A caller other than main calls Connect(l) on a client that is connected.
ReconnectCall ==
    /\ connected
    /\ ConnectEnter(MaxCalls)

LiveConnectCall == ConnectCallUpTo(MaxLiveCalls)

\* c.xInst, c.xCfg, err = c.createXrayProxy(link)
ConnectCreate ==
    /\ pc = "c_create"
    /\ \/ /\ ParseXrayConfig(link).ok
          /\ xInst' = calls
          /\ xCfg' = ParseXrayConfig(link).Address
          /\ engine' = [engine EXCEPT ![calls] = "created"]
          /\ pc' = "c_start"
          /\ UNCHANGED <<lastResult, connected>>
       \/ \* the link does not parse, or MakeXrayInstance fails
          /\ xInst' = 0
          /\ xCfg' = ""
          /\ UNCHANGED engine
          /\ ConnectReturn(<<"create xray core instance">>)
    /\ link' = ""
    /\ UNCHANGED <<construction, metrics>>
    /\ UNCHANGED <<calls, tunnel, stopTunnel, wg, iface, routes, added,
                   staleDel, goroutines, disconnectLocals>>

\* c.xInst.Start()
ConnectStart ==
    /\ pc = "c_start"
    /\ \/ /\ engine' = [engine EXCEPT ![xInst] = "running"]
          /\ pc' = "c_tunnew"
          /\ UNCHANGED <<lastResult, connected>>
       \/ /\ UNCHANGED engine
          /\ ConnectReturn(<<"start xray core instance">>)
    /\ UNCHANGED <<construction, metrics>>
    /\ UNCHANGED <<calls, link, client, wg, iface, routes, added, staleDel,
                   goroutines,
                   disconnectLocals>>

\* setupTunnel: tun.New("", 1500)
SetupTunnelNew ==
    /\ pc = "c_tunnew"
    /\ \/ /\ iface' = [iface EXCEPT ![calls].st = "created"]
          /\ pc' = "c_tunup"
          /\ UNCHANGED <<lastResult, connected, tunnel>>
       \/ /\ UNCHANGED iface
          /\ tunnel' = 0
          /\ ConnectReturn(<<"setup TUN device">>)
    /\ UNCHANGED <<construction, metrics>>
    /\ UNCHANGED <<calls, link, xInst, xCfg, stopTunnel, wg, engine, routes,
                   added, staleDel, goroutines, disconnectLocals>>

SetupTunnelUpIgnoreErr ==
    /\ pc = "c_tunup"
    /\ \/ iface' = [iface EXCEPT ![calls] =
                       [st |-> "up", addr |-> defaultTUNAddress]]
       \/ UNCHANGED iface
    /\ pc' = "c_tunroute"
    /\ UNCHANGED <<construction, metrics>>
    /\ UNCHANGED <<calls, link, connected, lastResult, client, wg, engine,
                   routes, added, staleDel, goroutines, disconnectLocals>>

\* setupTunnel: ifc.Up(l, gw)
SetupTunnelUp ==
    /\ pc = "c_tunup"
    /\ \/ /\ iface' = [iface EXCEPT ![calls] =
                          [st |-> "up", addr |-> defaultTUNAddress]]
          /\ pc' = "c_tunroute"
          /\ UNCHANGED <<lastResult, connected, tunnel>>
       \/ /\ UNCHANGED iface
          /\ tunnel' = 0
          /\ ConnectReturn(<<"setup TUN device">>)
    /\ UNCHANGED <<construction, metrics>>
    /\ UNCHANGED <<calls, link, xInst, xCfg, stopTunnel, wg, engine, routes,
                   added, staleDel, goroutines, disconnectLocals>>

\* setupTunnel: route.Add(route.Opts{IfName: ifc.Name(), Routes: rerouteToTun})
\* A failing Add may have installed the routes before the one that failed.
SetupTunnelRoutesSkipped ==
    /\ pc = "c_tunroute"
    /\ tunnel' = calls
    /\ pc' = "c_staledel"
    /\ UNCHANGED <<construction, metrics>>
    /\ UNCHANGED <<calls, link, connected, lastResult, xInst, xCfg, stopTunnel,
                   wg, system, added, staleDel, goroutines, disconnectLocals>>

SetupTunnelRoutes ==
    /\ pc = "c_tunroute"
    /\ LET opts == tunRoute(calls, DefaultRoutesToTUN)
       IN  \/ /\ CanAdd(routes, OptsEntries(opts))
              /\ routes' = RouteAdd(routes, OptsEntries(opts))
              /\ added' = added \cup OptsEntries(opts)
              /\ tunnel' = calls
              /\ pc' = "c_staledel"
              /\ UNCHANGED <<lastResult, connected>>
           \/ \E k \in 0..(Len(opts.Routes) - 1) :
                LET done == OptsEntries(FirstRoutes(opts, k))
                IN  /\ CanAdd(routes, done)
                    /\ routes' = RouteAdd(routes, done)
                    /\ added' = added \cup done
                    /\ tunnel' = 0
                    /\ ConnectReturn(<<"setup TUN device">>)
    /\ UNCHANGED <<construction, metrics>>
    /\ UNCHANGED <<calls, link, xInst, xCfg, stopTunnel, wg, engine, iface,
                   staleDel, goroutines, disconnectLocals>>

ConnectDeleteStaleChecked ==
    /\ pc = "c_staledel"
    /\ LET es == OptsEntries(xrayToGatewayRoute(xCfg))
       IN  \/ /\ CanDelete(routes, es)
              /\ routes' = RouteDelete(routes, es)
              /\ staleDel' = "deleted"
              /\ pc' = "c_excadd"
              /\ UNCHANGED <<lastResult, connected>>
           \/ /\ UNCHANGED routes
              /\ staleDel' = "failed"
              /\ ConnectReturn(<<"add xray server route exception">>)
    /\ UNCHANGED <<construction, metrics>>
    /\ UNCHANGED <<calls, link, client, wg, engine, iface, added, goroutines,
                   disconnectLocals>>

\* _ = route.Delete(c.xrayToGatewayRoute()) // In case previous run failed.
ConnectDeleteStale ==
    /\ pc = "c_staledel"
    /\ LET es == OptsEntries(xrayToGatewayRoute(xCfg))
       IN  \/ /\ CanDelete(routes, es)
              /\ routes' = RouteDelete(routes, es)
              /\ staleDel' = "deleted"
           \/ /\ UNCHANGED routes
              /\ staleDel' = "failed"
    /\ pc' = "c_excadd"
    /\ UNCHANGED <<construction, metrics>>
    /\ UNCHANGED <<calls, link, connected, lastResult, client, wg, engine,
                   iface, added, goroutines, disconnectLocals>>

ConnectAddExceptionIgnoreErr ==
    /\ pc = "c_excadd"
    /\ LET es == OptsEntries(xrayToGatewayRoute(xCfg))
       IN  \/ /\ CanAdd(routes, es)
              /\ routes' = RouteAdd(routes, es)
              /\ added' = added \cup es
           \/ UNCHANGED <<routes, added>>
    /\ pc' = "c_go"
    /\ UNCHANGED <<construction, metrics>>
    /\ UNCHANGED <<calls, link, connected, lastResult, client, wg, engine,
                   iface, staleDel, goroutines, disconnectLocals>>

\* err = route.Add(c.xrayToGatewayRoute())
ConnectAddException ==
    /\ pc = "c_excadd"
    /\ LET es == OptsEntries(xrayToGatewayRoute(xCfg))
       IN  \/ /\ CanAdd(routes, es)
              /\ routes' = RouteAdd(routes, es)
              /\ added' = added \cup es
              /\ pc' = "c_go"
              /\ UNCHANGED <<lastResult, connected>>
           \/ /\ UNCHANGED <<routes, added>>
              /\ ConnectReturn(<<"add xray server route exception">>)
    /\ UNCHANGED <<construction, metrics>>
    /\ UNCHANGED <<calls, link, client, wg, engine, iface, staleDel,
                   goroutines, disconnectLocals>>

\* wg.Add(1); ctx, c.stopTunnel = context.WithCancel(...); go func() {...}()
ConnectGo ==
    /\ pc = "c_go"
    /\ wg' = 1
    /\ stopTunnel' = calls
    /\ gpc' = [gpc EXCEPT ![calls] = "spawned"]
    /\ pc' = "c_wgwait"
    /\ UNCHANGED <<construction, metrics>>
    /\ UNCHANGED <<calls, link, connected, lastResult, xInst, xCfg, tunnel,
                   system, added, staleDel, gval, cancelled, disconnectLocals>>

\* wg.Wait(); return nil
ConnectWait ==
    /\ pc = "c_wgwait"
    /\ wg = 0
    /\ ConnectReturn(NIL)
    /\ UNCHANGED <<construction, metrics>>
    /\ UNCHANGED <<calls, link, client, wg, system, added, staleDel, goroutines,
                   disconnectLocals>>

\* ---------------------------------------------------------- copy goroutine

\* go func() { wg.Done() ...
GoStart(id) ==
    /\ gpc[id] = "spawned"
    /\ wg' = wg - 1
    /\ gpc' = [gpc EXCEPT ![id] = "started"]
    /\ UNCHANGED <<construction, metrics>>
    /\ UNCHANGED <<pc, calls, link, connected, lastResult, client, system,
                   added, staleDel, gval, cancelled, disconnectLocals>>

\* ... tun2socks.Copy(ctx, c.tunnel, ...) is entered
GoCopyEnter(id) ==
    /\ gpc[id] = "started"
    /\ gpc' = [gpc EXCEPT ![id] = "copying"]
    /\ UNCHANGED <<construction, metrics>>
    /\ UNCHANGED <<pc, calls, link, connected, lastResult, client, wg, system,
                   added, staleDel, gval, cancelled, disconnectLocals>>

\* Copy returns: nil on a clean cancellation, an error otherwise. The
\* goroutine then blocks on the send c.tunnelStopped <- ...
GoCopyReturn(id) ==
    /\ gpc[id] = "copying"
    /\ \E v \in {NIL, <<"copy">>} :
         /\ v = NIL => cancelled[id]
         /\ gval' = [gval EXCEPT ![id] = v]
    /\ gpc' = [gpc EXCEPT ![id] = "sending"]
    /\ UNCHANGED <<construction, metrics>>
    /\ UNCHANGED <<pc, calls, link, connected, lastResult, client, wg, system,
                   added, staleDel, cancelled, disconnectLocals>>

\* -------------------------------------------------------------- Disconnect

\* The caller's context: context.Background(), or one the caller may cancel.
Contexts == {"background", "cancellable"}

CallerOnly(ctx) ==
    IF ctx = "cancellable" THEN {"context canceled"} ELSE {}

\* context.WithTimeout(ctx, disconnectTimeout): the errors its Done can end
\* with. The deadline always comes; the caller's cancellation may come first.
WithTimeout(ctx) ==
    {"context deadline exceeded"}
    \cup (IF ctx = "cancellable" THEN {"context canceled"} ELSE {})

\* Disconnect returns e to the caller.
DisconnectReturn(e) ==
    /\ pc' = "idle"
    /\ lastResult' = [op |-> "Disconnect", err |-> e, id |-> stopTunnel]

\* The caller calls Disconnect(ctx); main calls it after a successful Connect.
DisconnectCall ==
    /\ pc = "idle"
    /\ connected
    /\ \E c \in Contexts : dctx' = c
    /\ connected' = FALSE
    /\ pc' = "d_stop"
    /\ lastResult' = NoResult
    /\ res' = <<>>
    /\ err' = NIL
    /\ attempts' = NoAttempts
    /\ wait' = NoWait
    /\ added' = {}
    /\ staleDel' = "none"
    /\ UNCHANGED <<construction, metrics>>
    /\ UNCHANGED <<calls, link, client, wg, system, goroutines>>

\* c.stopTunnel()
DisconnectStopSkipped ==
    /\ pc = "d_stop"
    /\ pc' = "d_xclose"
    /\ UNCHANGED <<construction, metrics>>
    /\ UNCHANGED <<calls, link, connected, lastResult, client, wg, system,
                   added, staleDel, goroutines, disconnectLocals>>

\* c.stopTunnel()
DisconnectStop ==
    /\ pc = "d_stop"
    /\ cancelled' = [cancelled EXCEPT ![stopTunnel] = TRUE]
    /\ pc' = "d_xclose"
    /\ UNCHANGED <<construction, metrics>>
    /\ UNCHANGED <<calls, link, connected, lastResult, client, wg, system,
                   added, staleDel, gpc, gval, disconnectLocals>>

DisconnectXCloseFailFast ==
    /\ pc = "d_xclose"
    /\ attempts' = [attempts EXCEPT !.xclose = @ + 1]
    /\ \/ /\ engine' = [engine EXCEPT ![xInst] = "closed"]
          /\ res' = Append(res, NIL)
          /\ pc' = "d_tclose"
          /\ UNCHANGED err
       \/ /\ UNCHANGED engine
          /\ res' = Append(res, <<"xray close">>)
          /\ err' = <<"xray close">>
          /\ pc' = "d_wait"
    /\ UNCHANGED <<construction, metrics>>
    /\ UNCHANGED <<calls, link, connected, lastResult, client, wg, iface,
                   routes, added, staleDel, goroutines, wait, dctx>>

\* errors.Join(c.xInst.Close(), ...
DisconnectXClose ==
    /\ pc = "d_xclose"
    /\ attempts' = [attempts EXCEPT !.xclose = @ + 1]
    /\ \/ /\ engine' = [engine EXCEPT ![xInst] = "closed"]
          /\ res' = Append(res, NIL)
       \/ /\ UNCHANGED engine
          /\ res' = Append(res, <<"xray close">>)
    /\ pc' = "d_tclose"
    /\ UNCHANGED <<construction, metrics>>
    /\ UNCHANGED <<calls, link, connected, lastResult, client, wg, iface,
                   routes, added, staleDel, goroutines, err, wait, dctx>>

DisconnectTCloseSkipped ==
    /\ pc = "d_tclose"
    /\ attempts' = [attempts EXCEPT !.tclose = @ + 1]
    /\ res' = Append(res, NIL)
    /\ pc' = "d_rdel"
    /\ UNCHANGED <<construction, metrics>>
    /\ UNCHANGED <<calls, link, connected, lastResult, client, wg, system,
                   added, staleDel, goroutines, err, wait, dctx>>

\* ... c.tunnel.Close(), ...
DisconnectTClose ==
    /\ pc = "d_tclose"
    /\ attempts' = [attempts EXCEPT !.tclose = @ + 1]
    /\ \/ /\ iface' = [iface EXCEPT ![tunnel].st = "closed"]
          /\ routes' = DropIfRoutes(routes, tunnel)
          /\ res' = Append(res, NIL)
       \/ /\ UNCHANGED <<iface, routes>>
          /\ res' = Append(res, <<"tun close">>)
    /\ pc' = "d_rdel"
    /\ UNCHANGED <<construction, metrics>>
    /\ UNCHANGED <<calls, link, connected, lastResult, client, wg, engine,
                   added, staleDel, goroutines, err, wait, dctx>>

\* ... route.Delete(c.xrayToGatewayRoute())); err := the three joined
DisconnectRDel ==
    /\ pc = "d_rdel"
    /\ attempts' = [attempts EXCEPT !.rdel = @ + 1]
    /\ LET es == OptsEntries(xrayToGatewayRoute(xCfg))
       IN  \/ /\ CanDelete(routes, es)
              /\ routes' = RouteDelete(routes, es)
              /\ res' = Append(res, NIL)
           \/ /\ UNCHANGED routes
              /\ res' = Append(res, <<"route delete">>)
    /\ err' = Join(res')
    /\ pc' = "d_wait"
    /\ UNCHANGED <<construction, metrics>>
    /\ UNCHANGED <<calls, link, connected, lastResult, client, wg, engine,
                   iface, added, staleDel, goroutines, wait, dctx>>

\* select: case tunErr := <-c.tunnelStopped: err = errors.Join(tunErr, err)
\* The channel is unbuffered: the receive meets a goroutine blocked in its send.
DisconnectRecv(id) ==
    /\ pc = "d_wait"
    /\ gpc[id] = "sending"
    /\ gpc' = [gpc EXCEPT ![id] = "done"]
    /\ gval' = [gval EXCEPT ![id] = NIL]
    /\ wait' = [how |-> "recv", val |-> gval[id], from |-> id]
    /\ err' = Join(<<gval[id], err>>)
    /\ DisconnectReturn(err')
    /\ UNCHANGED <<construction, metrics>>
    /\ UNCHANGED <<calls, link, connected, client, wg, system, added,
                   staleDel, cancelled, res, attempts, dctx>>

DisconnectCtxDoneAndDrain ==
    /\ pc = "d_wait"
    /\ \E id \in CallIds :
         /\ gpc[id] = "sending"
         /\ gpc' = [gpc EXCEPT ![id] = "done"]
         /\ gval' = [gval EXCEPT ![id] = NIL]
         /\ \E e \in WithTimeout(dctx) :
              /\ wait' = [how |-> "ctx", val |-> <<e>>, from |-> id]
              /\ err' = Join(<< <<e>>, gval[id], err >>)
    /\ DisconnectReturn(err')
    /\ UNCHANGED <<construction, metrics>>
    /\ UNCHANGED <<calls, link, connected, client, wg, system, added, staleDel,
                   cancelled, res, attempts, dctx>>

\* select: case <-ctx.Done(): err = errors.Join(ctx.Err(), err)
DisconnectCtxDone ==
    /\ pc = "d_wait"
    /\ \E e \in WithTimeout(dctx) :
         /\ wait' = [how |-> "ctx", val |-> <<e>>, from |-> 0]
         /\ err' = Join(<< <<e>>, err >>)
    /\ DisconnectReturn(err')
    /\ UNCHANGED <<construction, metrics>>
    /\ UNCHANGED <<calls, link, connected, client, wg, system, added, staleDel,
                   goroutines, res, attempts, dctx>>

\* ------------------------------------------------------------ readerMetrics

BytesRead == nRead
BytesWritten == nWritten

\* What the wrapped stream returned, as recorded with a call.
Returned(o, d) == [n |-> o.n, err |-> o.err, data |-> d]

ReadCountsOnError ==
    /\ ops < MaxOps
    /\ \E o \in UnderRead(inner, BufLen) :
         /\ inner' = o.next
         /\ nRead' = nRead + o.n
         /\ ret' = [op |-> "Read", arg |-> <<>>, passed |-> <<>>, n |-> o.n,
                    err |-> o.err, data |-> o.data,
                    under |-> Returned(o, o.data)]
         /\ seen' = [seen EXCEPT
                       !.read = @ + (IF o.err = NIL THEN o.n ELSE 0)]
    /\ ops' = ops + 1
    /\ UNCHANGED <<lifecycle, construction, nWritten>>

\* n, err = s.ReadWriteCloser.Read(p); if err == nil { s.nRead += n }
Read ==
    /\ ops < MaxOps
    /\ \E o \in UnderRead(inner, BufLen) :
         /\ inner' = o.next
         /\ nRead' = IF o.err = NIL THEN nRead + o.n ELSE nRead
         /\ ret' = [op |-> "Read", arg |-> <<>>, passed |-> <<>>, n |-> o.n,
                    err |-> o.err, data |-> o.data,
                    under |-> Returned(o, o.data)]
         /\ seen' = [seen EXCEPT
                       !.read = @ + (IF o.err = NIL THEN o.n ELSE 0)]
    /\ ops' = ops + 1
    /\ UNCHANGED <<lifecycle, construction, nWritten>>

WriteReportsAll(p) ==
    /\ ops < MaxOps
    /\ \E o \in UnderWrite(inner, p) :
         /\ inner' = o.next
         /\ nWritten' = IF o.err = NIL THEN nWritten + o.n ELSE nWritten
         /\ ret' = [op |-> "Write", arg |-> p, passed |-> p, n |-> Len(p),
                    err |-> NIL, data |-> <<>>, under |-> Returned(o, <<>>)]
         /\ seen' = [seen EXCEPT
                       !.written = @ + (IF o.err = NIL THEN o.n ELSE 0)]
    /\ ops' = ops + 1
    /\ UNCHANGED <<lifecycle, construction, nRead>>

\* n, err = s.ReadWriteCloser.Write(p); if err == nil { s.nWritten += n }
Write(p) ==
    /\ ops < MaxOps
    /\ \E o \in UnderWrite(inner, p) :
         /\ inner' = o.next
         /\ nWritten' = IF o.err = NIL THEN nWritten + o.n ELSE nWritten
         /\ ret' = [op |-> "Write", arg |-> p, passed |-> p, n |-> o.n,
                    err |-> o.err, data |-> <<>>, under |-> Returned(o, <<>>)]
         /\ seen' = [seen EXCEPT
                       !.written = @ + (IF o.err = NIL THEN o.n ELSE 0)]
    /\ ops' = ops + 1
    /\ UNCHANGED <<lifecycle, construction, nRead>>

\* return s.ReadWriteCloser.Close()
Close ==
    /\ ops < MaxOps
    /\ \E o \in UnderClose(inner) :
         /\ inner' = o.next
         /\ ret' = [op |-> "Close", arg |-> <<>>, passed |-> <<>>, n |-> 0,
                    err |-> o.err, data |-> <<>>,
                    under |-> [n |-> 0, err |-> o.err, data |-> <<>>]]
    /\ ops' = ops + 1
    /\ UNCHANGED <<lifecycle, construction, nRead, nWritten, seen>>

StreamNext ==
    \/ Read
    \/ \E p \in Payloads : Write(p)
    \/ Close

\* A readerMetrics around an echoing stream, called in any order.
StreamSpec == Init /\ [][StreamNext]_vars

\* ------------------------------------------------------------ specification

\* The steps of Connect after the call, of the goroutines and of Disconnect.
Steps ==
    \/ ConnectCreate
    \/ ConnectStart
    \/ SetupTunnelNew
    \/ SetupTunnelUp
    \/ SetupTunnelRoutes
    \/ ConnectDeleteStale
    \/ ConnectAddException
    \/ ConnectGo
    \/ ConnectWait
    \/ \E id \in CallIds : GoStart(id)
    \/ \E id \in CallIds : GoCopyEnter(id)
    \/ \E id \in CallIds : GoCopyReturn(id)
    \/ DisconnectCall
    \/ DisconnectStop
    \/ DisconnectXClose
    \/ DisconnectTClose
    \/ DisconnectRDel
    \/ \E id \in CallIds : DisconnectRecv(id)
    \/ DisconnectCtxDone

Next == ConnectCall \/ Steps

Spec == Init /\ [][Next]_vars

LiveNext == LiveConnectCall \/ Steps

\* The scheduler runs a goroutine that can take a step, and a Disconnect that
\* was called runs to its return. Nothing makes the caller call Disconnect
\* or makes Copy return.
FairSpec ==
    /\ Init
    /\ [][LiveNext]_vars
    /\ WF_vars(\E id \in CallIds : GoStart(id))
    /\ WF_vars(\E id \in CallIds : GoCopyEnter(id))
    /\ WF_vars(DisconnectStop)
    /\ WF_vars(DisconnectXClose)
    /\ WF_vars(DisconnectTClose)
    /\ WF_vars(DisconnectRDel)
    /\ WF_vars(DisconnectCtxDone)
    /\ WF_vars(\E id \in CallIds : DisconnectRecv(id))

\* Callers that do not keep to main's order of calls.
OverlapNext == ConnectCall \/ ReconnectCall \/ Steps

OverlapSpec == Init /\ [][OverlapNext]_vars

\* The timer of context.WithTimeout fires while Disconnect waits in its select.
\* Nothing makes Copy return: the copy loop may never signal completion.
LiveSpec ==
    /\ Init
    /\ [][LiveNext]_vars
    /\ WF_vars(DisconnectCtxDone)

\* ------------------------------------------------------------------ claims

ConnectFailed ==
    pc = "idle" /\ lastResult.op = "Connect" /\ lastResult.err # NIL

ConnectSucceeded ==
    pc = "idle" /\ connected /\ lastResult.op = "Connect"

DisconnectReturned == pc = "idle" /\ lastResult.op = "Disconnect"

\* Number of table entries whose destination is exactly addr/32.
HostRouteCount(addr) ==
    LET es == {e \in Entries : e.dst = <<addr, 32>>}
        RECURSIVE Sum(_)
        Sum(S) == IF S = {} THEN 0
                  ELSE LET e == CHOOSE x \in S : TRUE
                       IN  routes[e] + Sum(S \ {e})
    IN  Sum(es)

\* C1: when Connect returns an error, nothing the call established is left:
\* its engine is not running, its interface does not exist, and no route it
\* added is in the table.
ConnectErrorLeavesNothing ==
    ConnectFailed =>
        /\ engine[calls] # "running"
        /\ iface[calls].st \notin {"created", "up"}
        /\ \A e \in added : routes[e] = 0

\* C2: when Disconnect has returned, the client holds no Session: no engine
\* instance, no interface handle, no cancel handle, and no completion of the
\* finished session's copy loop is still pending.
DisconnectLeavesNoSession ==
    DisconnectReturned =>
        /\ xInst = 0
        /\ tunnel = 0
        /\ stopTunnel = 0
        /\ gpc[lastResult.id] = "done"

\* C3: each of the three teardown calls of a Disconnect is made exactly once,
\* whatever the other two return: never twice, and all three have been made
\* by the time Disconnect waits for the copy loop and when it returns.
TeardownStepsOnce ==
    /\ attempts.xclose <= 1 /\ attempts.tclose <= 1 /\ attempts.rdel <= 1
    /\ (pc = "d_wait" \/ DisconnectReturned) =>
          attempts = [xclose |-> 1, tclose |-> 1, rdel |-> 1]

TeardownStepsOnceWitness ==
    /\ DisconnectReturned
    /\ res[1] # NIL /\ res[2] = NIL /\ res[3] # NIL
    /\ attempts = [xclose |-> 1, tclose |-> 1, rdel |-> 1]

\* C4: Disconnect returns nil exactly when the three teardown calls returned
\* nil and the select received a nil completion value; otherwise what it
\* returns contains every error it met: each failed teardown call's, and the
\* received copy error or the context's error.
DisconnectErrorAggregates ==
    DisconnectReturned =>
        /\ (lastResult.err = NIL) <=>
              /\ \A i \in 1..3 : res[i] = NIL
              /\ wait.how = "recv"
              /\ wait.val = NIL
        /\ \A i \in 1..3 : res[i] # NIL => Contains(lastResult.err, res[i][1])
        /\ wait.val # NIL => Contains(lastResult.err, wait.val[1])

DisconnectErrorAggregatesWitness ==
    /\ DisconnectReturned
    /\ \A i \in 1..3 : res[i] # NIL
    /\ wait.how = "recv" /\ wait.val # NIL
    /\ Len(lastResult.err) = 4

\* C5: a Disconnect that waits for the copy loop always returns, also when
\* the copy loop never signals; when it returns without having received the
\* completion value, it returns the context's error (deadline or
\* cancellation) among its errors.
DisconnectWaitBounded ==
    /\ (pc = "d_wait") ~> (pc = "idle")
    /\ [](DisconnectReturned =>
            \/ /\ wait.how = "recv"
               /\ gpc[wait.from] = "done"
            \/ /\ wait.how = "ctx"
               /\ wait.val[1] \in
                    {"context deadline exceeded", "context canceled"}
               /\ Contains(lastResult.err, wait.val[1]))

DisconnectWaitBoundedWitness ==
    /\ DisconnectReturned
    /\ gpc[lastResult.id] = "copying"
    /\ wait.how = "ctx"
    /\ dctx = "background"
    /\ Contains(lastResult.err, "context deadline exceeded")

\* C6: the host's default route is never deleted or changed; the only table
\* entries a step changes are the host route of the remote via the gateway
\* and the redirect prefixes via an interface the client created.
DefaultRouteIntact ==
    /\ [](routes[DefaultRoute] = 1)
    /\ [][\A e \in Entries :
            routes'[e] # routes[e] =>
                \/ /\ e.dst = <<xCfg, 32>>
                   /\ e.gw = GatewayIP
                   /\ e.ifc = 0
                \/ /\ e.ifc \in CallIds
                   /\ iface[e.ifc].st # "none"
                   /\ \E i \in 1..Len(DefaultRoutesToTUN) :
                        e.dst = DefaultRoutesToTUN[i]]_vars

DefaultRouteIntactWitness ==
    /\ DisconnectReturned
    /\ calls = 2
    /\ \A i \in 1..3 : res[i] = NIL
    /\ routes[DefaultRoute] = 1

\* C7: after a successful Connect the table holds exactly one host route for
\* the remote, the one via the gateway, also when a stale identical one was
\* there before and the call deleted it.
OneRouteException ==
    ConnectSucceeded =>
        /\ HostRouteCount(xCfg) = 1
        /\ routes[HostRoute(xCfg)] = 1

OneRouteExceptionWitness ==
    /\ ConnectSucceeded
    /\ staleDel = "deleted"
    /\ HostRouteCount(xCfg) = 1

\* C8: when Connect returns nil the engine is started, the interface is up
\* with the configured address, the host route remote/32 via the gateway is
\* installed, and every prefix of the route set is routed to the interface.
ConnectedEstablished ==
    ConnectSucceeded =>
        /\ xInst = calls /\ tunnel = calls
        /\ engine[xInst] = "running"
        /\ iface[tunnel] = [st |-> "up", addr |-> defaultTUNAddress]
        /\ routes[HostRoute(xCfg)] = 1
        /\ \A i \in 1..Len(DefaultRoutesToTUN) : routes[Redirect(tunnel, i)] = 1

ConnectedEstablishedWitness ==
    /\ ConnectSucceeded
    /\ xCfg = "203.0.113.5"
    /\ routes[HostRoute("203.0.113.5")] = 1
    /\ routes[Redirect(tunnel, 1)] = 1 /\ routes[Redirect(tunnel, 2)] = 1

\* C9: after a successful Connect and a Disconnect whose teardown calls all
\* succeed, what the Connect set up is undone: the engine it started is
\* stopped, the interface it created is gone with its redirects, and no host
\* route of the remote is in the table.
DisconnectRestores ==
    (DisconnectReturned /\ \A i \in 1..3 : res[i] = NIL) =>
        /\ engine[xInst] = "closed"
        /\ iface[tunnel].st = "closed"
        /\ HostRouteCount(xCfg) = 0
        /\ \A i \in 1..Len(DefaultRoutesToTUN) : routes[Redirect(tunnel, i)] = 0

DisconnectRestoresWitness ==
    /\ DisconnectReturned
    /\ \A i \in 1..3 : res[i] = NIL
    /\ lastResult.err = NIL
    /\ engine[xInst] = "closed"

\* C10: whenever Connect has returned nil, the Copy call of the goroutine it
\* started has been entered.
CopyLiveOnConnectReturn ==
    ConnectSucceeded => gpc[calls] \in {"copying", "sending", "done"}

\* The steps of Disconnect, at which the session it ends still exists.
DisconnectSteps == {"d_stop", "d_xclose", "d_tclose", "d_rdel", "d_wait"}

\* A session exists from the return of a successful Connect to the return of
\* the Disconnect that stops its copy loop.
Sessions ==
    {i \in CallIds :
        /\ gpc[i] # "none"
        /\ ~(i = calls /\ pc = "c_wgwait")
        /\ ~cancelled[i] \/ (i = stopTunnel /\ pc \in DisconnectSteps)}

\* C11: at every point at most one session exists: of the sessions of the
\* client never more than one has a running copy loop, never more than one a
\* started engine and never more than one a live interface.
AtMostOneSession ==
    /\ Cardinality({i \in Sessions : gpc[i] \in {"started", "copying"}}) <= 1
    /\ Cardinality({i \in Sessions : engine[i] = "running"}) <= 1
    /\ Cardinality({i \in Sessions : iface[i].st = "up"}) <= 1

\* The steps of Connect before its route.Add of the route exception returns.
BeforeException ==
    {"c_create", "c_start", "c_tunnew", "c_tunup", "c_tunroute", "c_staledel",
     "c_excadd"}

RedirectsPresent(id) ==
    \A i \in 1..Len(DefaultRoutesToTUN) : routes[Redirect(id, i)] = 1

\* C16: as claimed: while Connect has not yet installed the route exception,
\* no redirect route points at the interface of that Connect.
ExceptionBeforeRedirect ==
    pc \in BeforeException =>
        \A i \in 1..Len(DefaultRoutesToTUN) : routes[Redirect(calls, i)] = 0

\* C16: the order of the code: Connect adds the route exception when every
\* redirect route already points at its interface, and from the confirmed
\* add to the return of Connect the exception and the redirects are both
\* in the table, so the copy loop is launched with both in place.
RedirectBeforeException ==
    /\ [][(pc = "c_excadd" /\ pc' = "c_go") =>
            /\ RedirectsPresent(tunnel)
            /\ routes[HostRoute(xCfg)] = 0
            /\ routes'[HostRoute(xCfg)] = 1]_vars
    /\ [](pc \in {"c_go", "c_wgwait"} =>
            RedirectsPresent(tunnel) /\ routes[HostRoute(xCfg)] = 1)

RedirectBeforeExceptionWitness ==
    /\ pc = "c_go"
    /\ tunnel = calls
    /\ RedirectsPresent(tunnel)
    /\ routes[HostRoute(xCfg)] = 1

\* C17: in every Disconnect the stop of the copy loop is signalled strictly
\* before the engine is stopped, the interface closed or the route exception
\* deleted: each of these steps is taken with the context already cancelled.
StopBeforeTeardown ==
    /\ [][(pc \in DisconnectSteps /\
            (engine' # engine \/ iface' # iface \/ routes' # routes
                \/ attempts' # attempts)) =>
            cancelled[stopTunnel]]_vars
    /\ [](pc \in {"d_xclose", "d_tclose", "d_rdel", "d_wait"} =>
            cancelled[stopTunnel])

StopBeforeTeardownWitness ==
    /\ pc = "d_tclose"
    /\ attempts.xclose = 1
    /\ engine[xInst] = "closed"
    /\ cancelled[stopTunnel]

\* C20: the installation of the route exception fails, and Connect returns
\* its error, exactly when route.Add of the host route fails; the result of
\* the delete before it is discarded, Connect always goes on to the add.
InstallFailsOnlyOnAdd ==
    /\ [][(pc = "c_staledel" /\ pc' # pc) =>
            pc' = "c_excadd" /\ lastResult' = lastResult]_vars
    /\ []((staleDel # "none" /\ pc # "c_excadd") =>
            /\ lastResult.err \in {NIL, <<"add xray server route exception">>}
            /\ (lastResult.err # NIL) <=> (HostRoute(xCfg) \notin added))

InstallFailsOnlyOnAddWitness ==
    /\ ConnectSucceeded
    /\ staleDel = "failed"
    /\ HostRoute(xCfg) \in added

CompletionNeverBlocks ==
    \A id \in CallIds : (gpc[id] = "sending") ~> (gpc[id] = "done")

\* The Config the documentation of Config promises: each field the caller
\* set, and the default for each field left out.
EachFieldResolved(c) ==
    [GatewayIP |-> IF c.GatewayIP # "" THEN c.GatewayIP ELSE GatewayIP,
     InboundProxy |->
        IF c.InboundProxy # "" THEN c.InboundProxy ELSE defaultInboundProxy,
     TUNAddress |->
        IF c.TUNAddress # "" THEN c.TUNAddress ELSE defaultTUNAddress,
     RoutesToTUN |->
        IF c.RoutesToTUN # <<>> THEN c.RoutesToTUN ELSE DefaultRoutesToTUN,
     TLSAllowInsecure |-> c.TLSAllowInsecure,
     Logger |-> IF c.Logger # "" THEN c.Logger ELSE defaultLogger]

\* C14: for every set of fields the caller supplies, the Config of the
\* Client that NewClientWithOpts returns holds the supplied value of each
\* supplied field and the default of each omitted one, field by field.
ResolvesEachField ==
    (built.called /\ built.ok) => built.cfg = EachFieldResolved(cfg)

\* C15: the gateway is discovered only when the caller supplied none; when
\* it is needed and fails the constructor returns an error and no Client;
\* when the caller supplied a gateway a Client with that gateway is returned
\* whether or not discovery would succeed.
DiscoversOnlyWhenNeeded ==
    built.called =>
        /\ built.discovered <=> (cfg.GatewayIP = "")
        /\ (cfg.GatewayIP = "" /\ discover = "fail") =>
                (~built.ok /\ built.err # NIL)
        /\ cfg.GatewayIP # "" =>
                (built.ok /\ built.cfg.GatewayIP = cfg.GatewayIP)

\* C12: after any calls, BytesRead is the sum of the counts the wrapped
\* stream returned from Read with a nil error and BytesWritten the same for
\* Write; a call that returns an error, whatever its count, and Close leave
\* both counters as they were; Read never changes BytesWritten and Write
\* never changes BytesRead.
CountersMatchUnderlying ==
    /\ [](BytesRead = seen.read /\ BytesWritten = seen.written)
    /\ [][ops' = ops + 1 =>
            LET counted == IF ret'.under.err = NIL THEN ret'.under.n ELSE 0
            IN  /\ (ret'.under.err # NIL \/ ret'.op = "Close") =>
                        (BytesRead' = BytesRead /\ BytesWritten' = BytesWritten)
                /\ ret'.op = "Read" =>
                        /\ BytesRead' = BytesRead + counted
                        /\ BytesWritten' = BytesWritten
                /\ ret'.op = "Write" =>
                        /\ BytesWritten' = BytesWritten + counted
                        /\ BytesRead' = BytesRead]_vars

CountersMatchUnderlyingWitness ==
    /\ ret.op = "Read"
    /\ ret.under.err # NIL
    /\ ret.under.n > 0
    /\ BytesRead = 1
    /\ BytesWritten = 1

\* C13: the wrapper is transparent: every call returns the count and error
\* the wrapped stream returned and hands the caller's buffer on as it is, so
\* the stream stores exactly the bytes the caller wrote (followed by what the
\* stream itself adds) and the caller reads exactly the bytes at the front
\* of what the stream holds: none lost, none duplicated, in any number of
\* calls.
WrapperTransparent ==
    /\ [](ret.op # "none" =>
            /\ ret.n = ret.under.n
            /\ ret.err = ret.under.err
            /\ ret.data = ret.under.data
            /\ ret.passed = ret.arg)
    /\ [][ops' = ops + 1 =>
            /\ (ret'.op = "Write" /\ ~inner.closed) =>
                    inner'.pending =
                        inner.pending \o SubSeq(ret'.arg, 1, ret'.n) \o Trailer
            /\ ret'.op = "Read" =>
                    /\ Len(ret'.data) = ret'.n
                    /\ ret'.data \o inner'.pending = inner.pending
            /\ ret'.op = "Close" => inner'.pending = inner.pending]_vars

WrapperTransparentWitness ==
    /\ ret.op = "Read"
    /\ ret.err = NIL
    /\ ret.data = <<"a", "b">> \o Trailer
    /\ inner.pending = <<>>
    /\ BytesWritten = 2
    /\ BytesRead = 3

\* C21: the completion value a Disconnect receives was produced by the copy
\* loop that the immediately preceding successful Connect started: a copy
\* loop of an earlier session never delivers its value to a later session's
\* Disconnect.
CompletionFromOwnSession ==
    (DisconnectReturned /\ wait.how = "recv") => wait.from = stopTunnel

====
